---- MODULE Spec2Model ----
(***************************************************************************)
(* Model of hacksport/deploy.py: per-instance generation of a challenge    *)
(* (identity, seed, staging, lifecycle hooks, file collection, service     *)
(* unit, description) followed by the deployment of every generated        *)
(* instance into its home directory.                                       *)
(*                                                                         *)
(* Strings that the code builds by concatenation (user names, seed inputs) *)
(* are sequences of one-character strings; file paths are sequences of     *)
(* path components.  md5 is modelled as a collision-free tag of its input. *)
(***************************************************************************)
EXTENDS Integers, Sequences, FiniteSets, TLC

\* ------------------------------------------------------------------ bounds
MaxInstances == 2      \* largest `instances` argument of deploy_problem
MaxRuns == 2           \* deploy_problem calls in one behaviour (re-deploys)
MaxRand == 1           \* randint range of generate_staging_directory: 0..MaxRand
MaxFiles == 2          \* files of a staging tree that is walked
MaxHookCalls == 1      \* url_for calls the hooks of one instance make
MaxCallers == 3        \* concurrent callers of create_instance_user

\* --------------------------------------------------------------- constants
PROBLEM_FILES_DIR == "problem_files"

SECRET == <<"h","a","c","k","s","p","o","r","t","s","2","0","1","5">>

\* The problem names found in problem.json.
ProblemNames == { <<"a","-","b">> }

\* ------------------------------------------------------------ pure helpers
AllowedChars ==
    {"a","b","c","d","e","f","g","h","i","j","k","l","m","n","o","p","q","r",
     "s","t","u","v","w","x","y","z","0","1","2","3","4","5","6","7","8","9","_"}

\* hacksport.utils.sanitize_name: every character a user name may not hold
\* becomes "_".
sanitize_name(name) ==
    [i \in 1..Len(name) |-> IF name[i] \in AllowedChars THEN name[i] ELSE "_"]

DigitChar(d) == <<"0","1","2","3","4","5","6","7","8","9">>[d + 1]

\* str(instance_number) / "{}".format(instance_number): decimal digits.
RECURSIVE Str(_)
Str(n) == IF n < 10 THEN <<DigitChar(n)>>
          ELSE Str(n \div 10) \o <<DigitChar(n % 10)>>

\* "".join(args)
RECURSIVE Join(_)
Join(args) == IF args = <<>> THEN <<>> ELSE Head(args) \o Join(Tail(args))

\* md5(...).hexdigest(): a collision-free digest of the encoded input.
md5hex(s) == [md5 |-> s]

\* generate_seed(*args)
generate_seed(args) == md5hex(Join(args))

\* A user name that leaves the instance number out.
Username_shared(problem_name, instance_number) ==
    sanitize_name(problem_name) \o <<"_">>

\* "{}_{}".format(converted_name, instance_number)
Username(problem_name, instance_number) ==
    sanitize_name(problem_name) \o <<"_">> \o Str(instance_number)

\* hacksport.operations.create_user: the home directory of a new account.
HomeOf(username) == [parent |-> "home", user |-> username]

\* The passwd entry create_user makes: own uid, own primary group.
NewAccount(username) ==
    [pw_dir |-> HomeOf(username), pw_uid |-> username, pw_gid |-> username]

RootName == <<"r","o","o","t">>
RootAccount == [pw_dir |-> [parent |-> "", user |-> RootName],
                pw_uid |-> RootName, pw_gid |-> RootName]

\* os.path.basename of a path given as its components.
basename(path) == path[Len(path)]

\* A value of the stream of Random(seed): the i-th draw.
Draw(seed, i) == [seed |-> seed, index |-> i]

\* What a generator holds: its seed and how many values were drawn.
Random(seed) == [seed |-> seed, pos |-> 0]

\* The values n draws take from a generator.
Drawn(rng, n) == [i \in 1..n |-> Draw(rng.seed, rng.pos + i)]

Advance(rng, n) == [rng EXCEPT !.pos = @ + n]

\* -------------------------------------------------- challenge definitions
FileClasses == {"File", "ProtectedFile", "ExecutableFile"}

\* isinstance(f, File): File and its subclasses ProtectedFile, ExecutableFile.
IsFile(f) == f.cls \in FileClasses

Rec(path, permissions, cls) == [path |-> path, permissions |-> permissions, cls |-> cls]

\* The lists a definition's setup() may leave in self.files
\* (permissions in decimal: 0444 = 292, 02755 = 1517, 0750 = 488, 0644 = 420).
FileLists ==
    { << Rec(<<"flag.txt">>, 292, "File"), Rec(<<"vuln">>, 1517, "ProtectedFile") >>,
      << Rec(<<"a","run">>, 488, "ExecutableFile"), Rec(<<"b","run">>, 420, "File") >>,
      << Rec(<<"flag.txt">>, 292, "File"), Rec(<<"notes">>, 0, "str") >> }

CompiledFiles == << Rec(<<"bin">>, 493, "ExecutableFile") >>
RemoteFiles == << Rec(<<"xinetd">>, 416, "ProtectedFile") >>

\* An author-supplied challenge.py: its capabilities and what its hooks do.
ChallengeDefs ==
    [ compiled  : BOOLEAN,            \* Problem derives from Compiled
      remote    : BOOLEAN,            \* Problem derives from Remote
      files     : FileLists,          \* self.files after setup()
      initDraws : {1},                \* self.random draws in initialize()
      flagDraws : {2},                \* draws generate_flag takes from its argument
      setsFlag  : {"none", "setup"} ] \* the hook that assigns self.flag itself

\* ------------------------------------------------------------------- state
VARIABLES
    spec_file,        \* problem.json as parsed (never written)
    chal,             \* the challenge definition in the problem directory
    pc,               \* position of deploy_problem / generate_instance
    run,              \* deploy_problem calls started so far
    instances,        \* the `instances` argument of the current call
    instance_number,  \* loop variable of the generation loop
    problem_object,   \* the dict loads() returned, shared by all instances
    passwd,           \* OS accounts: user name -> passwd entry
    created,          \* create_user calls made, per user name
    provisioned,      \* results of create_instance_user, per user name, in order
    cwd,              \* the process's working directory
    entry_cwd,        \* the working directory when generate_instance was entered
    staging_root,     \* names present under /tmp/staging/
    local,            \* locals of the running generate_instance
    problem,          \* the attributes of the instantiated Problem
    trace,            \* lifecycle steps run for the current instance, in order
    units,            \* service-unit files written into staging directories
    instance_list,    \* tuples collected by the generation loop
    deploy_index,     \* next tuple of the deployment loop
    hostfs,           \* files under the home directories
    deployed_now,     \* files the current deploy_problem call has deployed
    generated,        \* (instance number, seed, flag, staging) of returned instances
    walk,             \* a template_staging_directory call on a tree: input, result
    callers           \* concurrent create_instance_user calls on the same host

vars == << spec_file, chal, pc, run, instances, instance_number, problem_object,
           passwd, created, provisioned, cwd, entry_cwd, staging_root, local,
           problem, trace, units, instance_list, deploy_index, hostfs, deployed_now,
           generated, walk, callers >>

LaunchDir == [kind |-> "launch", id |-> 0]
StagingDir(id) == [kind |-> "staging", id |-> id]
\* os.path.join(staging_directory, PROBLEM_FILES_DIR)
CopyPath(staging) == [kind |-> PROBLEM_FILES_DIR, id |-> staging.id]

NoLocal ==
    [ username |-> <<>>, home_directory |-> HomeOf(<<>>), seed |-> md5hex(<<>>),
      staging_directory |-> StagingDir(0), cwd |-> LaunchDir,
      all_files |-> <<>>, web_accessible_files |-> <<>>,
      flag_returned |-> <<>>,
      url_calls |-> <<>>,      \* url_for invocations: the step and the source
      service |-> "unset" ]    \* what problem.service() gave create_service_file

NoProblem ==
    [ random |-> Random(md5hex(<<>>)), user |-> <<>>, directory |-> HomeOf(<<>>),
      url_for |-> "unset", flag |-> <<>>, files |-> <<>>,
      description |-> "unset" ]

NoWalk ==
    [ pc |-> "idle", tree |-> <<>>,
      out |-> [tree |-> <<>>, acc |-> <<>>, calls |-> <<>>, submitted |-> {},
               exception |-> "none"] ]

NoCallers == [serialized |-> FALSE, procs |-> <<>>]

\* The host and the process before deploy_problem is called.
MainInit ==
    /\ spec_file \in { [k \in {"name", "description"} |->
                          IF k = "name" THEN n ELSE <<"d">>] : n \in ProblemNames }
    /\ chal \in ChallengeDefs
    /\ pc = "idle"
    /\ run = 0
    /\ instances = 0
    /\ instance_number = 0
    /\ problem_object = spec_file
    /\ passwd = [u \in {RootName} |-> RootAccount]
    /\ created = [u \in {} |-> 0]
    /\ provisioned = [u \in {} |-> <<>>]
    /\ cwd = LaunchDir
    /\ entry_cwd = LaunchDir
    /\ staging_root = {}
    /\ local = NoLocal
    /\ problem = NoProblem
    /\ trace = <<>>
    /\ units = {}
    /\ instance_list = <<>>
    /\ deploy_index = 1
    /\ hostfs = [p \in {} |-> 0]
    /\ deployed_now = {}
    /\ generated = {}

Init ==
    /\ MainInit
    /\ walk = NoWalk
    /\ callers = NoCallers

\* ------------------------------------------------------- identity and seed
\* create_instance_user without the getpwnam check: create_user is called
\* on every call.
create_instance_user_nocheck(pw, problem_name, number) ==
    [username |-> Username(problem_name, number),
     home |-> HomeOf(Username(problem_name, number)), creates |-> TRUE]

\* create_instance_user provisioning the account of the next instance number.
create_instance_user_offbyone(pw, problem_name, number) ==
    LET username == Username(problem_name, number + 1)
    IN  IF username \in DOMAIN pw
        THEN [username |-> username, home |-> pw[username].pw_dir, creates |-> FALSE]
        ELSE [username |-> username, home |-> HomeOf(username), creates |-> TRUE]

\* create_instance_user: the user name, its home directory, and whether
\* create_user had to be called (getpwnam raised KeyError).
create_instance_user(pw, problem_name, number) ==
    LET username == Username(problem_name, number)
    IN  IF username \in DOMAIN pw
        THEN [username |-> username, home |-> pw[username].pw_dir, creates |-> FALSE]
        ELSE [username |-> username, home |-> HomeOf(username), creates |-> TRUE]

\* A seed that also depends on how many staging directories exist.
InstanceSeed_salted(problem_name, number) ==
    generate_seed(<< problem_name, SECRET, Str(number + Cardinality(staging_root)) >>)

\* generate_seed(problem_object['name'], SECRET, str(instance_number))
InstanceSeed(problem_name, number) ==
    generate_seed(<< problem_name, SECRET, Str(number) >>)

\* update_problem_class: attributes = problem_object; attributes.update(...).
\* The dict updated is the caller's problem_object itself.
UpdatedAttributes(po, seed, user, directory) ==
    [k \in DOMAIN po \cup {"random", "user", "directory", "url_for"} |->
        CASE k = "random"    -> Random(seed)
          [] k = "user"      -> user
          [] k = "directory" -> directory
          [] k = "url_for"   -> <<"s","t","u","b">>
          [] OTHER           -> po[k]]

\* generate_flag handed the instance's own random attribute.
FlagRandom_shared(seed, prob) == prob.random

\* The generator generate_instance hands to generate_flag: Random(seed).
FlagRandom(seed, prob) == Random(seed)

\* A flag an author hook assigns to self.flag by itself.
AuthorFlag == << Draw(md5hex(<<"x">>), 0) >>

\* ---------------------------------------------------------- lifecycle order
LifecycleSteps ==
    {"initialize", "generate_flag", "bind", "template", "compiler_setup",
     "remote_setup", "setup", "collect", "description"}

\* compiler_setup called without the isinstance(problem, Compiled) check.
AfterTemplate_unchecked(c) == "compiler_setup"

\* The statement generate_instance runs after templating: the isinstance
\* checks of lines 271-275.
AfterTemplate(c) ==
    IF c.compiled THEN "compiler_setup"
    ELSE IF c.remote THEN "remote_setup" ELSE "setup"

AfterCompilerSetup(c) == IF c.remote THEN "remote_setup" ELSE "setup"

\* The output list of lines 279-284.
CollectFiles(c, files) ==
    files \o (IF c.compiled THEN CompiledFiles ELSE <<>>)
          \o (IF c.remote THEN RemoteFiles ELSE <<>>)

\* deploy_files called inside the generation loop, right after each instance.
AfterReturn_eager(number, count) == "deploy"

\* The loop of deploy_problem after an instance is appended: the next
\* instance, or the deployment loop once range(instances) is exhausted.
AfterReturn(number, count) ==
    IF number + 1 < count THEN "create_user" ELSE "deploy"

\* ------------------------------------------------------------- deployment
\* deploy_files giving every file to root's group.
DeployFile_rootgroup(fs, staging_directory, instance_directory, f, user, root) ==
    LET output_path == [dir |-> instance_directory, base |-> basename(f.path)]
        entry == [ src  |-> [dir |-> staging_directory, path |-> f.path, whole |-> TRUE],
                   uid  |-> root.pw_uid,
                   gid  |-> root.pw_gid,
                   mode |-> f.permissions ]
    IN  [p \in DOMAIN fs \cup {output_path} |->
            IF p = output_path THEN entry ELSE fs[p]]

\* One iteration of the loop of deploy_files.
DeployFile(fs, staging_directory, instance_directory, f, user, root) ==
    LET output_path == [dir |-> instance_directory, base |-> basename(f.path)]
        entry == [ src  |-> [dir |-> staging_directory, path |-> f.path, whole |-> TRUE],
                   uid  |-> root.pw_uid,
                   gid  |-> IF f.cls \in {"ProtectedFile", "ExecutableFile"}
                            THEN user.pw_gid ELSE root.pw_gid,
                   mode |-> f.permissions ]
    IN  [p \in DOMAIN fs \cup {output_path} |->
            IF p = output_path THEN entry ELSE fs[p]]

\* deploy_files on the first n records of file_list.
RECURSIVE DeployFiles(_, _, _, _, _, _, _)
DeployFiles(fs, staging_directory, instance_directory, file_list, n, user, root) ==
    IF n = 0 THEN fs
    ELSE DeployFile(DeployFiles(fs, staging_directory, instance_directory,
                                file_list, n - 1, user, root),
                    staging_directory, instance_directory, file_list[n], user, root)

\* The call of one iteration of deploy_files that raises.  shutil.copy2
\* opens the source, creates or truncates the destination, writes it, and
\* then copies the mode bits (copystat); os.chown and os.chmod follow.
FailStages == {"open", "write", "copystat", "chown", "chmod"}

\* Mode bits a staged file may carry (0644 = 420, 02755 = 1517).
StagedModes == {420, 1517}

\* The mode of a file open() creates: 0666 under the umask 022.
CreatedMode == 420

Bit(m, b) == (m \div b) % 2

\* os.chown on a regular file: the kernel drops the setuid bit (04000), and
\* the setgid bit (02000) when the group may execute the file (0010).
ClearSugid(m) ==
    m - 2048 * Bit(m, 2048) - (IF Bit(m, 8) = 1 THEN 1024 * Bit(m, 1024) ELSE 0)

\* One iteration of the loop of deploy_files in which the call `stage`
\* raises, the staged file carrying the mode bits staged_mode.  A source
\* that cannot be opened leaves the home directory as it was.  From the
\* write on, the destination holds the new content (a part of it when the
\* write fails) under the owner, group and mode the path had before (root
\* and the creation mode for a new file); copystat gives it the staged mode
\* bits, chown the owner and group of its class, dropping setuid and setgid.
FailedDeployFile(fs, staging_directory, instance_directory, f, user, root, stage, staged_mode) ==
    LET output_path == [dir |-> instance_directory, base |-> basename(f.path)]
        existed == output_path \in DOMAIN fs
        done == DeployFile(fs, staging_directory, instance_directory, f, user, root)
        old_uid == IF existed THEN fs[output_path].uid ELSE root.pw_uid
        old_gid == IF existed THEN fs[output_path].gid ELSE root.pw_gid
        old_mode == IF existed THEN fs[output_path].mode ELSE CreatedMode
        entry ==
           [ src  |-> [dir |-> staging_directory, path |-> f.path,
                       whole |-> stage # "write"],
             uid  |-> IF stage = "chmod" THEN done[output_path].uid ELSE old_uid,
             gid  |-> IF stage = "chmod" THEN done[output_path].gid ELSE old_gid,
             mode |-> CASE stage = "chmod" -> ClearSugid(staged_mode)
                        [] stage = "chown" -> staged_mode
                        [] OTHER -> old_mode ]
    IN  IF stage = "open" THEN fs
        ELSE [p \in DOMAIN fs \cup {output_path} |->
                 IF p = output_path THEN entry ELSE fs[p]]

\* ----------------------------------------------------------------- actions
Ended == pc \in {"idle", "done", "aborted", "failed"}

\* deploy_problem, lines 308-315: parse problem.json, empty instance list.
StartRun ==
    /\ Ended
    /\ run < MaxRuns
    /\ \E n \in 1..MaxInstances : instances' = n
    /\ run' = run + 1
    /\ problem_object' = spec_file
    /\ instance_list' = <<>>
    /\ instance_number' = 0
    /\ deploy_index' = 1
    /\ deployed_now' = {}
    /\ local' = NoLocal
    /\ problem' = NoProblem
    /\ trace' = <<>>
    /\ pc' = "create_user"
    /\ UNCHANGED << spec_file, chal, passwd, created, provisioned, cwd,
                    staging_root, units, hostfs, generated, entry_cwd, walk, callers >>

\* generate_instance, lines 240-241.
CreateInstanceUser ==
    /\ pc = "create_user"
    /\ LET r == create_instance_user(passwd, problem_object["name"], instance_number)
           u == r.username
           before == IF u \in DOMAIN provisioned THEN provisioned[u] ELSE <<>>
           count == IF u \in DOMAIN created THEN created[u] ELSE 0
       IN  /\ passwd' = IF r.creates
                        THEN [x \in DOMAIN passwd \cup {u} |->
                                 IF x = u THEN NewAccount(u) ELSE passwd[x]]
                        ELSE passwd
           /\ created' = IF r.creates
                         THEN [x \in DOMAIN created \cup {u} |->
                                  IF x = u THEN count + 1 ELSE created[x]]
                         ELSE created
           /\ provisioned' =
                 [x \in DOMAIN provisioned \cup {u} |->
                     IF x = u
                     THEN Append(before, [home |-> r.home, creates |-> r.creates])
                     ELSE provisioned[x]]
           /\ local' = [NoLocal EXCEPT
                          !.username = u,
                          !.home_directory = r.home,
                          !.seed = InstanceSeed(problem_object["name"], instance_number)]
    /\ entry_cwd' = cwd
    /\ problem' = NoProblem
    /\ trace' = <<>>
    /\ pc' = "staging"
    /\ UNCHANGED << spec_file, chal, run, instances, instance_number, problem_object,
                    cwd, staging_root, units, instance_list, deploy_index, hostfs,
                    deployed_now, generated, walk, callers >>

\* generate_instance, lines 242-244: a fresh random directory under the
\* staging root, then the copy of the problem directory into it.
StageSources ==
    /\ pc = "staging"
    /\ \E r \in 0..MaxRand :
          /\ r \notin staging_root
          /\ staging_root' = staging_root \cup {r}
          /\ local' = [local EXCEPT !.staging_directory = StagingDir(r)]
    /\ \E copied \in BOOLEAN : pc' = IF copied THEN "load" ELSE "aborted"
    /\ UNCHANGED << spec_file, chal, run, instances, instance_number, problem_object,
                    passwd, created, provisioned, cwd, problem, trace, units,
                    instance_list, deploy_index, hostfs, deployed_now, generated, entry_cwd, walk, callers >>

\* generate_staging_directory, lines 148-152: with every name of the randint
\* range taken, get_new_path recurses until Python raises RecursionError.
StagingExhausted ==
    /\ pc = "staging"
    /\ \A r \in 0..MaxRand : r \in staging_root
    /\ pc' = "aborted"
    /\ UNCHANGED << spec_file, chal, run, instances, instance_number, problem_object,
                    passwd, created, provisioned, cwd, staging_root, local, problem,
                    trace, units, instance_list, deploy_index, hostfs, deployed_now,
                    generated, entry_cwd, walk, callers >>

\* generate_instance, lines 246-248: load challenge.py, inject the attributes.
LoadChallenge ==
    /\ pc = "load"
    /\ problem_object' = UpdatedAttributes(problem_object, local.seed,
                                          local.username, local.home_directory)
    /\ problem' = [NoProblem EXCEPT
                     !.random = Random(local.seed),
                     !.user = local.username,
                     !.directory = local.home_directory,
                     !.url_for = "stub",
                     !.description = "template"]
    /\ pc' = "chdir"
    /\ UNCHANGED << spec_file, chal, run, instances, instance_number, passwd, created,
                    provisioned, cwd, staging_root, local, trace, units,
                    instance_list, deploy_index, hostfs, deployed_now, generated, entry_cwd, walk, callers >>

\* generate_instance, lines 251-252.
ChangeDir ==
    /\ pc = "chdir"
    /\ local' = [local EXCEPT !.cwd = cwd]
    /\ cwd' = CopyPath(local.staging_directory)
    /\ pc' = "construct"
    /\ UNCHANGED << spec_file, chal, run, instances, instance_number, problem_object,
                    passwd, created, provisioned, staging_root, problem, trace, units,
                    instance_list, deploy_index, hostfs, deployed_now, generated, entry_cwd, walk, callers >>

\* generate_instance, line 255: Problem().
Construct ==
    /\ pc = "construct"
    /\ pc' = "initialize"
    /\ UNCHANGED << spec_file, chal, run, instances, instance_number, problem_object,
                    passwd, created, provisioned, cwd, staging_root, local, problem,
                    trace, units, instance_list, deploy_index, hostfs, deployed_now,
                    generated, entry_cwd, walk, callers >>

\* generate_instance, line 256: problem.initialize().  self.random is the
\* Random object of line 59, which line 67 also stored in problem_object.
Initialize ==
    /\ pc = "initialize"
    /\ problem' = [problem EXCEPT !.random = Advance(@, chal.initDraws)]
    /\ problem_object' = [problem_object EXCEPT
                            !["random"] = Advance(@, chal.initDraws)]
    /\ trace' = Append(trace, "initialize")
    /\ pc' = "generate_flag"
    /\ UNCHANGED << spec_file, chal, run, instances, instance_number,
                    passwd, created, provisioned, cwd, staging_root, local, units,
                    instance_list, deploy_index, hostfs, deployed_now, generated, entry_cwd, walk, callers >>

\* generate_instance, line 259: problem.flag = problem.generate_flag(Random(seed)).
GenerateFlag ==
    /\ pc = "generate_flag"
    /\ LET flag == Drawn(FlagRandom(local.seed, problem), chal.flagDraws)
       IN  /\ problem' = [problem EXCEPT !.flag = flag]
           /\ local' = [local EXCEPT !.flag_returned = flag]
    /\ trace' = Append(trace, "generate_flag")
    /\ pc' = "bind"
    /\ UNCHANGED << spec_file, chal, run, instances, instance_number, problem_object,
                    passwd, created, provisioned, cwd, staging_root, units,
                    instance_list, deploy_index, hostfs, deployed_now, generated, entry_cwd, walk, callers >>

\* generate_instance.url_for, lines 262-264: the augmented assignment makes
\* web_accessible_files a local of url_for, so reading it raises
\* UnboundLocalError before anything is appended or returned.
url_for(acc, source) ==
    [raised |-> TRUE, exception |-> "UnboundLocalError", acc |-> acc]

\* update_problem_class.url_for_stub, lines 64-65, called with the
\* positional arguments args: the function takes one parameter, so any
\* other number of arguments is a TypeError before its body runs; its body
\* raises Exception.  Nothing is recorded either way.
url_for_stub(acc, args) ==
    [raised |-> TRUE,
     exception |-> IF Len(args) = 1 THEN "Exception" ELSE "TypeError",
     acc |-> acc]

\* problem.url_for(source): whichever function the attribute is bound to.
\* The real url_for is an instance attribute (line 267) and receives the
\* source alone; the stub is a function in the class namespace (lines 67,
\* 38-40), so the call through the instance is a bound-method call that
\* passes the instance and the source.
InvokeUrlFor(binding, acc, source) ==
    IF binding = "real" THEN url_for(acc, source)
    ELSE url_for_stub(acc, <<"self", source>>)

\* ------------------------------------------------------------- templating
\* A file of the staging tree: its name, what its bytes are, and whether
\* template_file has rewritten it.
FileKinds == {"placeholder", "link", "malformed", "binary"}
FileNames == {"problem.json", "page"}
TreeFiles == [name : FileNames, kind : FileKinds, rendered : {FALSE}]

\* The staging trees, in the order os.walk yields their files.
RECURSIVE TreesOfLen(_)
TreesOfLen(n) ==
    IF n = 0 THEN {<<>>}
    ELSE {Append(t, f) : t \in TreesOfLen(n - 1), f \in TreeFiles}

StagingTrees == UNION {TreesOfLen(n) : n \in 0..MaxFiles}

\* The walk skipping no file.
IsSkipped_never(filename) == FALSE

\* template_staging_directory, lines 199-200.
IsSkipped(filename) == filename = "problem.json"

\* An except clause that catches every exception.
IsSwallowed_all(exception) == TRUE

\* template_staging_directory, lines 204-206.
IsSwallowed(exception) == exception = "UnicodeDecodeError"

\* template_file, lines 180-185: the template is loaded (decoded, parsed),
\* rendered, and only then written over the file.
template_file(f, binding, acc) ==
    CASE f.kind = "binary" ->
            [exception |-> "UnicodeDecodeError", file |-> f, acc |-> acc, calls |-> <<>>]
      [] f.kind = "malformed" ->
            [exception |-> "TemplateSyntaxError", file |-> f, acc |-> acc, calls |-> <<>>]
      [] f.kind = "link" ->
            LET r == InvokeUrlFor(binding, acc, f.name)
            IN  IF r.raised
                THEN [exception |-> r.exception, file |-> f, acc |-> r.acc,
                      calls |-> <<f.name>>]
                ELSE [exception |-> "none", file |-> [f EXCEPT !.rendered = TRUE],
                      acc |-> r.acc, calls |-> <<f.name>>]
      [] OTHER ->
            [exception |-> "none", file |-> [f EXCEPT !.rendered = TRUE],
             acc |-> acc, calls |-> <<>>]

\* template_staging_directory, lines 197-206, from file i of the tree on.
\* w holds the tree, the accumulator of url_for, the sources asked of
\* url_for, the files handed to template_file and the exception that left
\* the walk ("none" while it runs).
RECURSIVE WalkFrom(_, _, _)
WalkFrom(w, i, binding) ==
    IF i > Len(w.tree) THEN w
    ELSE IF IsSkipped(w.tree[i].name) THEN WalkFrom(w, i + 1, binding)
    ELSE LET r == template_file(w.tree[i], binding, w.acc)
             next == [ tree |-> [w.tree EXCEPT ![i] = r.file],
                       acc |-> r.acc,
                       calls |-> w.calls \o r.calls,
                       submitted |-> w.submitted \cup {i},
                       exception |-> "none" ]
         IN  IF r.exception = "none" \/ IsSwallowed(r.exception)
             THEN WalkFrom(next, i + 1, binding)
             ELSE [next EXCEPT !.exception = r.exception]

template_staging_directory(tree, binding, acc) ==
    WalkFrom([tree |-> tree, acc |-> acc, calls |-> <<>>, submitted |-> {},
              exception |-> "none"], 1, binding)

Calls(step, sources) == [i \in 1..Len(sources) |-> [step |-> step, source |-> sources[i]]]

\* generate_instance, lines 261-267: the accumulator and the real url_for.
BindUrlFor ==
    /\ pc = "bind"
    /\ local' = [local EXCEPT !.web_accessible_files = <<>>]
    /\ problem' = [problem EXCEPT !.url_for = "real"]
    /\ trace' = Append(trace, "bind")
    /\ pc' = "template"
    /\ UNCHANGED << spec_file, chal, run, instances, instance_number, problem_object,
                    passwd, created, provisioned, cwd, staging_root, units,
                    instance_list, deploy_index, hostfs, deployed_now, generated, entry_cwd, walk, callers >>

\* generate_instance, line 269: template_staging_directory over the tree
\* copied into the staging directory.
TemplateStaging ==
    /\ pc = "template"
    /\ trace' = Append(trace, "template")
    /\ \E tree \in StagingTrees :
          LET r == template_staging_directory(tree, problem.url_for,
                                              local.web_accessible_files)
          IN  /\ local' = [local EXCEPT
                             !.web_accessible_files = r.acc,
                             !.url_calls = @ \o Calls("template", r.calls)]
              /\ pc' = IF r.exception # "none" THEN "aborted" ELSE AfterTemplate(chal)
    /\ UNCHANGED << spec_file, chal, run, instances, instance_number, problem_object,
                    passwd, created, provisioned, cwd, staging_root, problem, units,
                    instance_list, deploy_index, hostfs, deployed_now, generated, entry_cwd, walk, callers >>

\* What a statement that raises at the current step has done to the
\* Problem object and to the record before the exception leaves it.
\* Lines 246-248 raise before update_problem_class has touched the record
\* (load_source, challenge.Problem) or at its line 70, after line 67 has
\* updated the caller's record.  initialize() has drawn any number of its
\* values from self.random, the object stored in the record too; setup()
\* has made any of its assignments to self.files and self.flag.
RaiseOutcomes ==
    CASE pc = "load" ->
            { [po |-> po, pr |-> problem] :
                po \in { problem_object,
                         UpdatedAttributes(problem_object, local.seed, local.username,
                                           local.home_directory) } }
      [] pc = "initialize" ->
            { [po |-> [problem_object EXCEPT !["random"] = Advance(@, k)],
               pr |-> [problem EXCEPT !.random = Advance(@, k)]] :
                k \in 0..chal.initDraws }
      [] pc = "setup" ->
            { [po |-> problem_object,
               pr |-> [problem EXCEPT !.files = fs, !.flag = fl]] :
                fs \in {problem.files, chal.files},
                fl \in {problem.flag} \cup
                       (IF chal.setsFlag = "setup" THEN {AuthorFlag} ELSE {}) }
      [] OTHER -> { [po |-> problem_object, pr |-> problem] }

\* An author hook calls self.url_for outside of templating: Problem(),
\* initialize() and generate_flag() run before line 267, compiler_setup(),
\* remote_setup() and setup() after it. The exception is raised inside the
\* hook: a hook that does not handle it is left by it, and so is
\* generate_instance; a hook that handles it goes on.
HookSteps ==
    {"construct", "initialize", "generate_flag", "compiler_setup", "remote_setup",
     "setup"}

HookCalls ==
    SelectSeq(local.url_calls, LAMBDA c : c.step \in HookSteps)

HookCallsUrlFor ==
    /\ pc \in HookSteps
    /\ Len(HookCalls) < MaxHookCalls
    /\ \A i \in 1..Len(local.url_calls) : local.url_calls[i].step # pc
    /\ LET r == InvokeUrlFor(problem.url_for, local.web_accessible_files, "page")
       IN  /\ local' = [local EXCEPT
                          !.web_accessible_files = r.acc,
                          !.url_calls = @ \o Calls(pc, <<"page">>)]
           /\ \E handled \in BOOLEAN :
                 LET leaves == r.raised /\ ~handled
                 IN  /\ pc' = IF leaves THEN "aborted" ELSE pc
                     /\ trace' = IF leaves /\ pc \in LifecycleSteps
                                 THEN Append(trace, pc) ELSE trace
                     /\ \E o \in (IF leaves THEN RaiseOutcomes
                                  ELSE {[po |-> problem_object, pr |-> problem]}) :
                           /\ problem_object' = o.po
                           /\ problem' = o.pr
    /\ UNCHANGED << spec_file, chal, run, instances, instance_number,
                    passwd, created, provisioned, cwd, staging_root, units,
                    instance_list, deploy_index, hostfs, deployed_now, generated, entry_cwd, walk, callers >>

\* generate_instance, lines 271-272: problem.compiler_setup().
CompilerSetup ==
    /\ pc = "compiler_setup"
    /\ trace' = Append(trace, "compiler_setup")
    /\ pc' = AfterCompilerSetup(chal)
    /\ UNCHANGED << spec_file, chal, run, instances, instance_number, problem_object,
                    passwd, created, provisioned, cwd, staging_root, local, problem,
                    units, instance_list, deploy_index, hostfs, deployed_now,
                    generated, entry_cwd, walk, callers >>

\* generate_instance, lines 273-274: problem.remote_setup().
RemoteSetup ==
    /\ pc = "remote_setup"
    /\ trace' = Append(trace, "remote_setup")
    /\ pc' = "setup"
    /\ UNCHANGED << spec_file, chal, run, instances, instance_number, problem_object,
                    passwd, created, provisioned, cwd, staging_root, local, problem,
                    units, instance_list, deploy_index, hostfs, deployed_now,
                    generated, entry_cwd, walk, callers >>

\* generate_instance, line 275: problem.setup(). The hook fills self.files
\* and is free to assign any attribute of self, the flag included.
Setup ==
    /\ pc = "setup"
    /\ problem' = [problem EXCEPT
                     !.files = chal.files,
                     !.flag = IF chal.setsFlag = "setup" THEN AuthorFlag ELSE @]
    /\ trace' = Append(trace, "setup")
    /\ pc' = "restore"
    /\ UNCHANGED << spec_file, chal, run, instances, instance_number, problem_object,
                    passwd, created, provisioned, cwd, staging_root, local, units,
                    instance_list, deploy_index, hostfs, deployed_now, generated, entry_cwd, walk, callers >>

\* generate_instance, line 277: os.chdir(cwd).
RestoreCwd ==
    /\ pc = "restore"
    /\ cwd' = local.cwd
    /\ pc' = "collect"
    /\ UNCHANGED << spec_file, chal, run, instances, instance_number, problem_object,
                    passwd, created, provisioned, staging_root, local, problem, trace,
                    units, instance_list, deploy_index, hostfs, deployed_now,
                    generated, entry_cwd, walk, callers >>

\* generate_instance, lines 279-284: all_files is problem.files itself,
\* extended in place.
Collect ==
    /\ pc = "collect"
    /\ LET all_files == CollectFiles(chal, problem.files)
       IN  /\ local' = [local EXCEPT !.all_files = all_files]
           /\ problem' = [problem EXCEPT !.files = all_files]
    /\ trace' = Append(trace, "collect")
    /\ pc' = "assert"
    /\ UNCHANGED << spec_file, chal, run, instances, instance_number, problem_object,
                    passwd, created, provisioned, cwd, staging_root, units,
                    instance_list, deploy_index, hostfs, deployed_now, generated, entry_cwd, walk, callers >>

\* The assertion written with any() in place of all().
FilesAccepted_any(all_files) == \E i \in 1..Len(all_files) : IsFile(all_files[i])

\* generate_instance, line 286: assert all([isinstance(f, File) ...]).
FilesAccepted(all_files) == \A i \in 1..Len(all_files) : IsFile(all_files[i])

AssertFiles ==
    /\ pc = "assert"
    /\ pc' = IF FilesAccepted(local.all_files) THEN "service" ELSE "aborted"
    /\ UNCHANGED << spec_file, chal, run, instances, instance_number, problem_object,
                    passwd, created, provisioned, cwd, staging_root, local, problem,
                    trace, units, instance_list, deploy_index, hostfs, deployed_now,
                    generated, entry_cwd, walk, callers >>

\* What problem.service() may be: a full descriptor, none, or one that
\* lacks 'Type' or 'ExecStart'.
ServiceKinds == {"full", "none", "partial"}

\* create_service_file: subscripting the descriptor raises unless it holds
\* both keys; otherwise the unit file is written under `path`.
create_service_file(kind, problem_name, number, path) ==
    IF kind = "full"
    THEN [raised |-> FALSE,
          file |-> [dir |-> path,
                    name |-> sanitize_name(problem_name) \o <<"_">> \o Str(number)]]
    ELSE [raised |-> TRUE, file |-> [dir |-> path, name |-> <<>>]]

\* generate_instance, line 288.
CreateServiceFile ==
    /\ pc = "service"
    /\ \E kind \in ServiceKinds :
          LET r == create_service_file(kind, problem_object["name"], instance_number,
                                       local.staging_directory)
          IN  /\ local' = [local EXCEPT !.service = kind]
              /\ units' = IF r.raised THEN units ELSE units \cup {r.file}
              /\ pc' = IF r.raised THEN "aborted" ELSE "description"
    /\ UNCHANGED << spec_file, chal, run, instances, instance_number, problem_object,
                    passwd, created, provisioned, cwd, staging_root, problem,
                    trace, instance_list, deploy_index, hostfs, deployed_now,
                    generated, entry_cwd, walk, callers >>

\* generate_instance, line 291: the description is rendered.
RenderDescription ==
    /\ pc = "description"
    /\ problem' = [problem EXCEPT !.description = "rendered"]
    /\ trace' = Append(trace, "description")
    /\ pc' = "return"
    /\ UNCHANGED << spec_file, chal, run, instances, instance_number, problem_object,
                    passwd, created, provisioned, cwd, staging_root, local, units,
                    instance_list, deploy_index, hostfs, deployed_now, generated, entry_cwd, walk, callers >>

\* generate_instance, lines 293-294, and deploy_problem, lines 319-322: the
\* tuple is returned and appended to instance_list.  The loop variable
\* keeps its last value when range(instances) is exhausted.
ReturnInstance ==
    /\ pc = "return"
    /\ instance_list' = Append(instance_list,
                               [ problem |-> problem,
                                 staging_directory |-> local.staging_directory,
                                 home_directory |-> local.home_directory,
                                 files |-> local.all_files ])
    /\ generated' = generated \cup
                      { [ number |-> instance_number, seed |-> local.seed,
                          flag |-> problem.flag,
                          staging |-> local.staging_directory.id ] }
    /\ pc' = AfterReturn(instance_number, instances)
    /\ instance_number' = IF instance_number + 1 < instances
                          THEN instance_number + 1 ELSE instance_number
    /\ UNCHANGED << spec_file, chal, run, instances, problem_object, passwd, created,
                    provisioned, cwd, staging_root, local, problem, trace, units,
                    deploy_index, hostfs, deployed_now, entry_cwd, walk, callers >>

\* A statement of generate_instance raises: Python unwinds generate_instance
\* and deploy_problem, no handler and no finally clause runs.
RaisingSteps ==
    {"create_user", "load", "construct", "initialize", "generate_flag", "template",
     "compiler_setup", "remote_setup", "setup", "description"}

Raise ==
    /\ pc \in RaisingSteps
    /\ trace' = IF pc \in LifecycleSteps THEN Append(trace, pc) ELSE trace
    /\ pc' = "aborted"
    /\ \E o \in RaiseOutcomes :
          /\ problem_object' = o.po
          /\ problem' = o.pr
    /\ UNCHANGED << spec_file, chal, run, instances, instance_number,
                    passwd, created, provisioned, cwd, staging_root, local,
                    units, instance_list, deploy_index, hostfs, deployed_now,
                    generated, entry_cwd, walk, callers >>

\* deploy_problem, lines 326-328: deploy_files for the next collected tuple.
\* A call made for record `failAt` may raise (failAt = 0: none does), which
\* ends deploy_files and deploy_problem with the exception.  deployed_now
\* holds the records whose copy2 has returned.
DeployInstance ==
    /\ pc = "deploy"
    /\ deploy_index <= Len(instance_list)
    /\ LET t == instance_list[deploy_index]
           problem_path == CopyPath(t.staging_directory)
       IN  \E failAt \in 0..Len(t.files), stage \in FailStages,
              staged_mode \in StagedModes :
              LET n == IF failAt = 0 THEN Len(t.files) ELSE failAt - 1
                  whole == DeployFiles(hostfs, problem_path, t.home_directory,
                                       t.files, n, passwd[t.problem.user],
                                       passwd[RootName])
                  touched == IF failAt # 0 /\ stage \in {"chown", "chmod"}
                             THEN failAt ELSE n
              IN  /\ hostfs' = IF failAt = 0 THEN whole
                                ELSE FailedDeployFile(whole, problem_path,
                                         t.home_directory, t.files[failAt],
                                         passwd[t.problem.user], passwd[RootName],
                                         stage, staged_mode)
                  /\ deployed_now' = deployed_now \cup
                        { [instance |-> deploy_index - 1, index |-> i] :
                            i \in 1..touched }
                  /\ pc' = IF failAt = 0 THEN "deploy" ELSE "failed"
    /\ deploy_index' = deploy_index + 1
    /\ UNCHANGED << spec_file, chal, run, instances, instance_number, problem_object,
                    passwd, created, provisioned, cwd, staging_root, local, problem,
                    trace, units, instance_list, generated, entry_cwd, walk, callers >>

\* deploy_problem returns: the deployment loop is exhausted.
Finish ==
    /\ pc = "deploy"
    /\ deploy_index > Len(instance_list)
    /\ pc' = "done"
    /\ UNCHANGED << spec_file, chal, run, instances, instance_number, problem_object,
                    passwd, created, provisioned, cwd, staging_root, local, problem,
                    trace, units, instance_list, deploy_index, hostfs, deployed_now,
                    generated, entry_cwd, walk, callers >>

Next ==
    \/ StartRun
    \/ CreateInstanceUser
    \/ StageSources
    \/ StagingExhausted
    \/ LoadChallenge
    \/ ChangeDir
    \/ Construct
    \/ Initialize
    \/ GenerateFlag
    \/ BindUrlFor
    \/ TemplateStaging
    \/ HookCallsUrlFor
    \/ CompilerSetup
    \/ RemoteSetup
    \/ Setup
    \/ RestoreCwd
    \/ Collect
    \/ AssertFiles
    \/ CreateServiceFile
    \/ RenderDescription
    \/ ReturnInstance
    \/ Raise
    \/ DeployInstance
    \/ Finish

Spec == Init /\ [][Next]_vars

mainvars == << spec_file, chal, pc, run, instances, instance_number, problem_object,
               passwd, created, provisioned, cwd, entry_cwd, staging_root, local,
               problem, trace, units, instance_list, deploy_index, hostfs,
               deployed_now, generated >>

\* The challenge of the runs that look at one function only.
PlainChallenge ==
    [ compiled |-> FALSE, remote |-> FALSE,
      files |-> << Rec(<<"flag.txt">>, 292, "File"),
                   Rec(<<"vuln">>, 1517, "ProtectedFile") >>,
      initDraws |-> 1, flagDraws |-> 2, setsFlag |-> "none" ]

\* ---------------------------------------- template_staging_directory alone
\* template_staging_directory applied to every staging tree, with the real
\* url_for bound as at line 269.
TemplateInit ==
    /\ MainInit
    /\ chal = PlainChallenge
    /\ callers = NoCallers
    /\ walk \in { [NoWalk EXCEPT !.pc = "ready", !.tree = t] : t \in StagingTrees }

RenderTree ==
    /\ walk.pc = "ready"
    /\ walk' = [walk EXCEPT
                  !.pc = "done",
                  !.out = template_staging_directory(walk.tree, "real", <<>>)]
    /\ UNCHANGED << mainvars, callers >>

TemplateNext == RenderTree

SpecTemplate == TemplateInit /\ [][TemplateNext]_vars

\* ------------------------------------- create_instance_user, interleaved
\* Processes calling create_instance_user for the problem on one host, each
\* with its instance number.  callers.serialized says whether the callers
\* hold a lock around the whole call.
Callers ==
    { [serialized |-> s, procs |-> p] :
        s \in BOOLEAN,
        p \in UNION { [1..n -> { [number |-> k, pc |-> "getpwnam", home |-> HomeOf(<<>>)] :
                                    k \in 0..(MaxInstances - 1) }] :
                       n \in 1..MaxCallers } }

RaceInit ==
    /\ MainInit
    /\ chal = PlainChallenge
    /\ walk = NoWalk
    /\ callers \in Callers

RaceUnchanged ==
    UNCHANGED << spec_file, chal, pc, run, instances, instance_number,
                 problem_object, provisioned, cwd, entry_cwd, staging_root, local,
                 problem, trace, units, instance_list, deploy_index, hostfs,
                 deployed_now, generated, walk >>

\* Lines 119-122: getpwnam(username); found, the call returns the account's
\* home directory, and on KeyError it goes on to the except branch.
GetPwNam(i) ==
    /\ callers.procs[i].pc = "getpwnam"
    /\ callers.serialized =>
          \A j \in DOMAIN callers.procs : callers.procs[j].pc # "create_user"
    /\ LET r == create_instance_user(passwd, spec_file["name"], callers.procs[i].number)
       IN  callers' = [callers EXCEPT
                          !.procs[i].pc = IF r.creates THEN "create_user" ELSE "returned",
                          !.procs[i].home = IF r.creates THEN @ ELSE r.home]
    /\ UNCHANGED << passwd, created >>
    /\ RaceUnchanged

\* Lines 123-125: the except branch calls create_user(username) and returns.
CreateUser(i) ==
    /\ callers.procs[i].pc = "create_user"
    /\ LET u == Username(spec_file["name"], callers.procs[i].number)
           count == IF u \in DOMAIN created THEN created[u] ELSE 0
       IN  /\ passwd' = [x \in DOMAIN passwd \cup {u} |->
                            IF x = u THEN NewAccount(u) ELSE passwd[x]]
           /\ created' = [x \in DOMAIN created \cup {u} |->
                             IF x = u THEN count + 1 ELSE created[x]]
           /\ callers' = [callers EXCEPT !.procs[i].pc = "returned",
                                         !.procs[i].home = HomeOf(u)]
    /\ RaceUnchanged

RaceNext ==
    \E i \in DOMAIN callers.procs : GetPwNam(i) \/ CreateUser(i)

SpecRace == RaceInit /\ [][RaceNext]_vars

\* -------------------------------------------------------------- properties
GenerationSteps ==
    {"create_user", "staging", "load", "chdir", "construct", "initialize",
     "generate_flag", "bind", "template", "compiler_setup", "remote_setup",
     "setup", "restore", "collect", "assert", "service", "description", "return"}

\* C1: deploy_files acts for no instance before every instance
\* 0..instances-1 has been generated without error, and a call that aborts
\* in generation has deployed no file, also for the instances generated
\* before the failing one.
C1_DeployOnlyAfterAllGenerated ==
    /\ deployed_now # {} =>
          /\ pc \in {"deploy", "done", "failed"}
          /\ Len(instance_list) = instances
    /\ pc \in GenerationSteps \cup {"aborted"} => deployed_now = {}

\* Instance 1 failed in its lifecycle after instance 0 was generated.
C1_Witness ==
    /\ pc = "aborted"
    /\ instances = 2
    /\ Len(instance_list) = 1
    /\ trace # <<>>
    /\ deployed_now = {}

\* The order C2 states for an instance with the capabilities of c.
ExpectedOrder(c) ==
    << "initialize", "generate_flag", "bind", "template" >>
      \o (IF c.compiled THEN << "compiler_setup" >> ELSE <<>>)
      \o (IF c.remote THEN << "remote_setup" >> ELSE <<>>)
      \o << "setup", "collect", "description" >>

\* C2: the lifecycle steps run for an instance are, at every moment, an
\* initial part of initialize, generate_flag, link-generator binding,
\* templating, compiler_setup iff Compiled, remote_setup iff Remote, setup,
\* file collection, description rendering: fixed order, each at most once.
C2_LifecycleOrder ==
    /\ Len(trace) <= Len(ExpectedOrder(chal))
    /\ trace = SubSeq(ExpectedOrder(chal), 1, Len(trace))
    /\ pc = "return" => trace = ExpectedOrder(chal)

\* A Remote, not Compiled instance has run its whole lifecycle.
C2_Witness ==
    /\ pc = "return"
    /\ chal.remote /\ ~chal.compiled
    /\ Len(trace) = 8

\* C3: whenever generate_instance has finished, by returning or by raising,
\* the working directory is the one it was entered with.
C3_CwdRestored ==
    pc \in {"return", "aborted"} => cwd = entry_cwd

\* C4: after deploy_files succeeded on a list with pairwise distinct base
\* names, every record has its file in the instance directory, owned by
\* root, in the account's primary group when ProtectedFile or ExecutableFile
\* and in root's group otherwise, with the record's permission bits as mode.
DistinctBaseNames(files) ==
    \A i, j \in 1..Len(files) :
        basename(files[i].path) = basename(files[j].path) => i = j

DeploySucceeded(i) ==
    /\ i < deploy_index
    /\ \/ pc \in {"deploy", "done"}
       \/ pc = "failed" /\ i < deploy_index - 1

C4_OwnershipPolicy ==
    \A i \in 1..Len(instance_list) :
        LET t == instance_list[i]
        IN  (DeploySucceeded(i) /\ DistinctBaseNames(t.files)) =>
               \A k \in 1..Len(t.files) :
                  LET f == t.files[k]
                      p == [dir |-> t.home_directory, base |-> basename(f.path)]
                  IN  /\ p \in DOMAIN hostfs
                      /\ hostfs[p].uid = RootName
                      /\ hostfs[p].gid =
                            IF f.cls \in {"ProtectedFile", "ExecutableFile"}
                            THEN passwd[t.problem.user].pw_gid
                            ELSE passwd[RootName].pw_gid
                      /\ hostfs[p].mode = f.permissions

\* An instance with a public, a protected and an executable file is deployed.
C4_Witness ==
    /\ pc = "done"
    /\ \E i \in 1..Len(instance_list) :
          LET t == instance_list[i]
          IN  /\ DistinctBaseNames(t.files)
              /\ \E k \in 1..Len(t.files) : t.files[k].cls = "ProtectedFile"
              /\ \E k \in 1..Len(t.files) : t.files[k].cls = "ExecutableFile"
              /\ \E k \in 1..Len(t.files) : t.files[k].cls = "File"

\* C5 as stated: while instances are generated, no OS account and no file
\* under a home directory is created or changed.
GenerationLeavesHost ==
    pc \in GenerationSteps => (passwd' = passwd /\ hostfs' = hostfs)

C5_GenerationTouchesNoHost == [][GenerationLeavesHost]_vars

\* C5, amended: while instances are generated no file under a home
\* directory is created or changed and no existing account is changed; the
\* one effect on the host is that create_instance_user, the first step of
\* each instance, adds that instance's own account when it is missing.
GenerationProvisionsOnly ==
    pc \in GenerationSteps =>
       /\ hostfs' = hostfs
       /\ \A u \in DOMAIN passwd : u \in DOMAIN passwd' /\ passwd'[u] = passwd[u]
       /\ passwd' # passwd =>
             /\ pc = "create_user"
             /\ DOMAIN passwd' =
                   DOMAIN passwd \cup {Username(spec_file["name"], instance_number)}

C5_GenerationOnlyProvisions == [][GenerationProvisionsOnly]_vars

\* The first call aborted in generation: an account exists, no file does.
C5_Witness ==
    /\ pc = "aborted"
    /\ run = 1
    /\ DOMAIN passwd # {RootName}
    /\ DOMAIN hostfs = {}

\* C6: of two successive create_instance_user calls for the same problem
\* name and instance number, the second returns the home directory the
\* first returned and calls create_user no more; create_user has been
\* called once for that user name.
C6_IdempotentProvisioning ==
    \A u \in DOMAIN provisioned :
        LET calls == provisioned[u]
        IN  /\ \A i \in 2..Len(calls) :
                  /\ calls[i].home = calls[i - 1].home
                  /\ ~calls[i].creates
            /\ Len(calls) >= 2 => created[u] = 1

\* Some user name was provisioned twice.
C6_Witness ==
    \E u \in DOMAIN provisioned : Len(provisioned[u]) >= 2

\* C7: the record parsed from problem.json keeps its keys and values while
\* instances are generated.
C7_SpecificationReadOnly ==
    problem_object = spec_file

\* C8: two generations of the same instance number of the problem yield the
\* same seed and the same flag, whatever was generated before and whatever
\* staging directory was drawn.
C8_SeedAndFlagReproducible ==
    \A g, h \in generated :
        g.number = h.number => (g.seed = h.seed /\ g.flag = h.flag)

\* One instance number was generated in two calls, in two staging directories.
C8_Witness ==
    \E g, h \in generated :
        g.number = h.number /\ g.staging # h.staging

\* C9: an instance that generate_instance returns carries the flag that
\* generate_flag returned.
C9_FlagIsGenerateFlagResult ==
    pc = "return" => problem.flag = local.flag_returned

\* C10: a collected list holding an element that is no File stops the
\* instance at the assertion, with no unit file written for it and without
\* the instance being appended; every collected tuple holds File records
\* only, each of one of the three classes.
C10_OnlyFileRecordsPass ==
    /\ (pc \in {"assert", "service", "description", "return", "aborted"}
           /\ local.all_files # <<>> /\ ~FilesAccepted(local.all_files)) =>
          /\ pc \in {"assert", "aborted"}
          /\ \A x \in units : x.dir # local.staging_directory
          /\ Len(instance_list) = instance_number
    /\ \A i \in 1..Len(instance_list) :
          \A k \in 1..Len(instance_list[i].files) :
             instance_list[i].files[k].cls \in FileClasses

\* The assertion stopped an instance whose list held a non-File element.
C10_Witness ==
    /\ pc = "aborted"
    /\ local.all_files # <<>>
    /\ ~FilesAccepted(local.all_files)

\* The sources asked of url_for while the staging tree was templated.
TemplateRequests ==
    LET sel == SelectSeq(local.url_calls, LAMBDA c : c.step = "template")
    IN  [i \in 1..Len(sel) |-> sel[i].source]

\* C11: with the real url_for bound, the link requests made while the
\* staging tree is templated all succeed, and the accumulator then holds the
\* requested sources in request order.
C11_LinkRequestsRecorded ==
    TemplateRequests # <<>> =>
       /\ local.web_accessible_files = TemplateRequests
       /\ ~(pc = "aborted" /\ trace[Len(trace)] = "template")

\* C12: a url_for invocation made by a hook outside of templating, before
\* the real function is bound (Problem(), initialize(), generate_flag()) or
\* after templating (compiler_setup(), remote_setup(), setup()), raises,
\* ends the generation of the instance and records nothing.
C12_UrlForFailsOutsideTemplating ==
    \A i \in 1..Len(local.url_calls) :
        local.url_calls[i].step \in HookSteps =>
           /\ pc = "aborted"
           /\ local.web_accessible_files = <<>>

\* C13: a walk of template_staging_directory leaves every problem.json as
\* it was, whatever its content and the other files, and hands it to no
\* rendering; a walk that ends without an exception has handed every other
\* file to template_file.
C13_SpecificationFileUntouched ==
    walk.pc = "done" =>
       /\ Len(walk.out.tree) = Len(walk.tree)
       /\ \A i \in 1..Len(walk.tree) :
             walk.tree[i].name = "problem.json" =>
                (walk.out.tree[i] = walk.tree[i] /\ i \notin walk.out.submitted)
       /\ walk.out.exception = "none" =>
             walk.out.submitted =
                {i \in 1..Len(walk.tree) : walk.tree[i].name # "problem.json"}

\* A tree with a problem.json of placeholder syntax and a rendered page.
C13_Witness ==
    /\ walk.pc = "done"
    /\ \E i, j \in 1..Len(walk.tree) :
          /\ walk.tree[i].name = "problem.json"
          /\ walk.tree[i].kind = "placeholder"
          /\ walk.tree[j].name = "page"
          /\ walk.out.tree[j].rendered

\* The files template_file raises on with an exception the walk lets through.
Failing(tree) ==
    {i \in 1..Len(tree) :
        tree[i].name # "problem.json" /\ tree[i].kind \in {"malformed", "link"}}

\* C14: a walk leaves every undecodable file as it was and does not end
\* with the decoding error: it goes on to the files after it. The error of
\* the first malformed text template leaves the walk, and no later file is
\* rendered.
C14_BinarySkippedTemplateErrorRaised ==
    walk.pc = "done" =>
       /\ \A i \in 1..Len(walk.tree) :
             walk.tree[i].kind = "binary" => walk.out.tree[i] = walk.tree[i]
       /\ walk.out.exception # "UnicodeDecodeError"
       /\ Failing(walk.tree) = {} =>
             /\ walk.out.exception = "none"
             /\ \A i \in 1..Len(walk.tree) :
                   (walk.tree[i].name # "problem.json" /\ walk.tree[i].kind # "binary")
                      => walk.out.tree[i].rendered
       /\ Failing(walk.tree) # {} =>
             LET first == CHOOSE i \in Failing(walk.tree) :
                             \A j \in Failing(walk.tree) : i <= j
             IN  /\ walk.out.exception =
                       IF walk.tree[first].kind = "malformed"
                       THEN "TemplateSyntaxError" ELSE "UnboundLocalError"
                 /\ \A i \in first..Len(walk.tree) : ~walk.out.tree[i].rendered

\* A binary file was passed over and the page after it was rendered.
C14_Witness ==
    /\ walk.pc = "done"
    /\ Len(walk.tree) = 2
    /\ walk.tree[1].kind = "binary" /\ walk.tree[1].name = "page"
    /\ walk.out.tree[1] = walk.tree[1]
    /\ walk.out.tree[2].rendered

\* C15: a failure while the files of one instance are deployed is that
\* instance's alone: deploy_problem still calls deploy_files for every
\* instance after it.
C15_FailureIsPerInstance ==
    pc = "failed" => deploy_index = Len(instance_list) + 1

\* C16: a unit file is written into the staging directory exactly when
\* problem.service() gives a descriptor; without one the instance goes on
\* to the description with no unit file and no error; a descriptor lacking
\* 'Type' or 'ExecStart' ends the generation of the instance.
UnitWritten == \E x \in units : x.dir = local.staging_directory

C16_ServiceOptional ==
    pc \in {"description", "return", "aborted"} =>
       /\ local.service = "full" => UnitWritten
       /\ local.service = "none" =>
             /\ ~UnitWritten
             /\ pc = "aborted" => trace[Len(trace)] = "description"
       /\ local.service = "partial" => (~UnitWritten /\ pc = "aborted")

\* C17: instances of the problem with different instance numbers have
\* different user names, different home directories and, md5 being taken
\* as collision-free, different seeds: within one deploy_problem call,
\* across calls, and for the instance numbers up to two decimal digits.
C17_DistinctIdentities ==
    /\ \A i, j \in 1..Len(instance_list) :
          i # j =>
             /\ instance_list[i].problem.user # instance_list[j].problem.user
             /\ instance_list[i].home_directory # instance_list[j].home_directory
    /\ \A g, h \in generated : g.number # h.number => g.seed # h.seed
    /\ \A u, v \in DOMAIN passwd : u # v => passwd[u].pw_dir # passwd[v].pw_dir
    /\ \A m, n \in 0..(10 + MaxInstances) :
          m # n =>
             /\ Username(spec_file["name"], m) # Username(spec_file["name"], n)
             /\ InstanceSeed(spec_file["name"], m) # InstanceSeed(spec_file["name"], n)

\* Two instances were generated by one call.
C17_Witness ==
    /\ Len(instance_list) = 2
    /\ \E g, h \in generated : g.number # h.number

CallsFor(u) ==
    { i \in DOMAIN callers.procs :
        Username(spec_file["name"], callers.procs[i].number) = u }

CreateCount(u) == IF u \in DOMAIN created THEN created[u] ELSE 0

\* C18: the existence check and the creation are separate steps of
\* create_instance_user; when the callers serialize their calls, create_user
\* is invoked at most once per user name, and exactly once when every call
\* for the name has returned.
C18_SerializedCreatesOnce ==
    callers.serialized =>
       \A i \in DOMAIN callers.procs :
          LET u == Username(spec_file["name"], callers.procs[i].number)
          IN  /\ CreateCount(u) <= 1
              /\ (\A j \in CallsFor(u) : callers.procs[j].pc = "returned")
                    => CreateCount(u) = 1

\* Two calls for one user name interleaved without a lock: both saw the
\* account absent and both called create_user.
C18_Witness ==
    /\ ~callers.serialized
    /\ \E i, j \in DOMAIN callers.procs :
          /\ i # j
          /\ callers.procs[i].number = callers.procs[j].number
          /\ callers.procs[i].pc = "returned"
          /\ callers.procs[j].pc = "returned"
          /\ CreateCount(Username(spec_file["name"], callers.procs[i].number)) = 2

\* C19: after deploy_files has returned for an instance, every record of
\* its list has its own file in the home directory, copied from that
\* record's staging path and carrying that record's group and mode, also
\* when two records share a base name.
C19_EveryRecordDeployed ==
    \A i \in 1..Len(instance_list) :
        LET t == instance_list[i]
        IN  DeploySucceeded(i) =>
               \A k \in 1..Len(t.files) :
                  LET f == t.files[k]
                      p == [dir |-> t.home_directory, base |-> basename(f.path)]
                  IN  /\ p \in DOMAIN hostfs
                      /\ hostfs[p].src.path = f.path
                      /\ hostfs[p].gid =
                            IF f.cls \in {"ProtectedFile", "ExecutableFile"}
                            THEN passwd[t.problem.user].pw_gid
                            ELSE passwd[RootName].pw_gid
                      /\ hostfs[p].mode = f.permissions

AfterFlagSteps ==
    {"bind", "template", "compiler_setup", "remote_setup", "setup"}

\* C20: generate_flag draws from a fresh Random(seed), not from the
\* instance's random attribute: the flag is the first draws of the seed
\* whatever number of values the constructor and initialize() drew from
\* problem.random, and after generate_flag problem.random stands where
\* initialize() left it.
C20_FlagGeneratorSeparate ==
    pc \in AfterFlagSteps =>
       /\ local.flag_returned = Drawn(Random(local.seed), chal.flagDraws)
       /\ \A n \in 0..(2 + MaxRand) :
             Drawn(FlagRandom(local.seed,
                              [problem EXCEPT !.random = Advance(Random(local.seed), n)]),
                   chal.flagDraws)
                = local.flag_returned
       /\ problem.random = Advance(Random(local.seed), chal.initDraws)

\* generate_flag has drawn its values after initialize() drew from
\* problem.random.
C20_Witness ==
    /\ pc = "bind"
    /\ chal.initDraws > 0
    /\ chal.flagDraws > 0
    /\ problem.random.pos = chal.initDraws
    /\ local.flag_returned # <<>>

====
